---- MODULE Spec2Model ----
(***************************************************************************)
(* The resilient window finder of scripts/find_window_id.py: main() checks *)
(* that swift is available, then find_window_with_retry() calls            *)
(* get_windows_via_swift() up to max_retries times with exponential        *)
(* backoff, selects one window with select_best_window() and main()        *)
(* reports it through stdout, stderr and the process exit code.            *)
(*                                                                         *)
(* Python floats (retry_delay, backoff) are modelled as exact rationals    *)
(* <<numerator, denominator>>.  stdout and stderr are modelled as the set  *)
(* of the kinds of lines written to them.                                  *)
(***************************************************************************)
EXTENDS Integers, Sequences, FiniteSets, TLC

\* ---------------------------------------------------------------- bounds
MaxRetries == 3
MaxWindows == 2

\* ---------------------------------------------------------------- values
NoneV == "<None>"

\* Variant: only None counts as "not given".
Truthy_M(s) == s # NoneV

\* Python truthiness of an Optional[str] argument: None and "" are falsy.
Truthy(s) == s # NoneV /\ s # ""

\* The default of w.get('layer', 999999) in select_best_window.
LayerDefault == 999999
\* The default of w.get('width', 0) and w.get('height', 0).
DimDefault == 0

\* One window as printed by the generated script: every record carries
\* windowID, layer, width and height (ownerName, windowName, x, y play no
\* part in the selection and are left out).  The shapes cover equal and
\* different layers, equal areas of different bounds, and different areas.
WindowShapes ==
    {[layer |-> 0, width |-> 1, height |-> 2],
     [layer |-> 0, width |-> 2, height |-> 1],
     [layer |-> 2, width |-> 2, height |-> 2],
     [layer |-> 5, width |-> 1, height |-> 1]}

MkWindow(id, shape) ==
    [windowID |-> id, layer |-> shape.layer,
     width |-> shape.width, height |-> shape.height]

\* The lists one query can print: up to MaxWindows records in the OS
\* enumeration order, window ids distinct (here: the enumeration position).
WindowLists ==
    UNION {{[i \in 1..n |-> MkWindow(i, f[i])] : f \in [1..n -> WindowShapes]}
           : n \in 0..MaxWindows}

\* The command-line arguments argparse can hand to main().
CriteriaSet ==
    {[bundle_id |-> NoneV, window_title |-> NoneV, app_name |-> NoneV],
     [bundle_id |-> NoneV, window_title |-> NoneV, app_name |-> ""],
     [bundle_id |-> "com.example.Other", window_title |-> "", app_name |-> "Studio"]}
StrategySet == {"frontmost", "largest", "first"}
\* --retry-delay: 0.5 (the default) and 0.1
RetryDelaySet == {<<1, 2>>, <<1, 10>>}
\* --backoff: 1.5 (the default) and 2.0
BackoffSet == {<<3, 2>>, <<2, 1>>}

VARIABLES
    pc,          \* where main() is
    args,        \* the parsed command line
    deps,        \* outcome of check_dependencies, "unknown" before the call
    attempt,     \* loop variable of find_window_with_retry
    delay,       \* local variable delay of find_window_with_retry
    windows,     \* what the last get_windows_via_swift call returns
    window,      \* what find_window_with_retry returned
    artifact,    \* whether /tmp/find_window.swift exists
    script,      \* the filters of the script text in the artifact
    stdout,      \* kinds of lines written to stdout
    stderr,      \* kinds of lines written to stderr
    exitCode,    \* process exit status, -1 while running
    queries,     \* number of get_windows_via_swift calls made so far
    fault,       \* how the current get_windows_via_swift call failed
    firstFault,  \* ordinal of the first failed call, 0 if none
    sleeps,      \* the durations passed to time.sleep, in order
    screen,      \* the OS window list the last run of the script enumerated
    procPc,      \* two finder processes: where each is in get_windows_via_swift
    procCriteria, \* two finder processes: the criteria of each
    procCalls,   \* two finder processes: calls of get_windows_via_swift begun
    sharedFile,  \* two finder processes: /tmp/find_window.swift as both see it
    procRan      \* two finder processes: what the last swift run of each read

procVars == <<procPc, procCriteria, procCalls, sharedFile, procRan>>

vars == <<pc, args, deps, attempt, delay, windows, window, artifact, script,
          stdout, stderr, exitCode, queries, fault, firstFault, sleeps,
          screen, procVars>>

\* Variant: the verbose flag is ignored.
log_stderr_M(err, msg, verbose) == err \cup {msg}

\* ------------------------------------------------------------ log_stderr
log_stderr(err, msg, verbose) == IF verbose THEN err \cup {msg} ELSE err

Verbose == ~args.quiet

\* ------------------------------------------------------ check_dependencies
\* How running ['swift', '--version'] can end: exit status 0, a non-zero
\* exit status, subprocess.TimeoutExpired (a SubprocessError),
\* FileNotFoundError, or another OSError such as PermissionError.
ProbeOutcomes == {"rc_zero", "rc_nonzero", "timeout", "file_not_found", "os_error"}

\* "true" / "false": the value returned; "raise": the exception is not one
\* that the except clause names and leaves the function.
check_dependencies(probe) ==
    CASE probe = "rc_zero" -> "true"
      [] probe = "rc_nonzero" -> "false"
      [] probe \in {"timeout", "file_not_found"} -> "false"
      [] OTHER -> "raise"

\* --------------------------------------------------- get_windows_via_swift
\* The filters the generated swift text applies (the f-string conditionals).
ScriptFor(bundle_id, window_title, app_name) ==
    (IF Truthy(bundle_id) THEN {"bundle"} ELSE {})
    \cup (IF Truthy(window_title) THEN {"title"} ELSE {})
    \cup (IF Truthy(app_name) THEN {"app"} ELSE {})
    \cup (IF ~(Truthy(bundle_id) \/ Truthy(window_title) \/ Truthy(app_name))
          THEN {"default"} ELSE {})

\* What stdout of the swift process can hold: nothing, text json.loads
\* rejects, or the JSON list of the matching windows.
StdoutSet ==
    [kind : {"empty", "garbage"}, list : {<<>>}]
    \cup [kind : {"json"}, list : WindowLists]

\* The branch taken after subprocess.run returned: "ok" (parsed list is
\* returned), "parse" (JSONDecodeError), "failed" (the else branch).
RunBranch(rc, out) ==
    IF rc = 0 /\ out.kind # "empty"
    THEN IF out.kind = "garbage" THEN "parse" ELSE "ok"
    ELSE "failed"

\* Variant: the exit status is not looked at before the output is parsed.
RunResult_M(rc, out) == IF out.kind = "json" THEN out.list ELSE <<>>

\* The list get_windows_via_swift returns for that branch.
RunResult(rc, out) == IF RunBranch(rc, out) = "ok" THEN out.list ELSE <<>>

\* ------------------------------------------------------ select_best_window
\* Optional[Dict]: None is the empty sequence, a record w is <<w>>.
None == <<>>
Some(w) == <<w>>

Get(w, k, d) == IF k \in DOMAIN w THEN w[k] ELSE d

\* Variants: a key that no record has; the width alone.
LayerKey_M(w) == Get(w, "level", LayerDefault)
AreaKey_M(w) == Get(w, "width", DimDefault)

LayerKey(w) == Get(w, "layer", LayerDefault)
AreaKey(w) == Get(w, "width", DimDefault) * Get(w, "height", DimDefault)

\* Python's min(seq, key=...): the running best is replaced only by a
\* strictly smaller key.
RECURSIVE MinLayerFrom(_, _, _)
MinLayerFrom(ws, i, best) ==
    IF i > Len(ws) THEN best
    ELSE MinLayerFrom(ws, i + 1,
                      IF LayerKey(ws[i]) < LayerKey(best) THEN ws[i] ELSE best)

\* Variant: a later record with an equal key replaces the running best.
RECURSIVE MinLayerLast(_, _, _)
MinLayerLast(ws, i, best) ==
    IF i > Len(ws) THEN best
    ELSE MinLayerLast(ws, i + 1,
                      IF LayerKey(ws[i]) <= LayerKey(best) THEN ws[i] ELSE best)

Frontmost_M(ws) == MinLayerLast(ws, 2, ws[1])

Frontmost(ws) == MinLayerFrom(ws, 2, ws[1])

\* Python's max(seq, key=...): replaced only by a strictly larger key.
RECURSIVE MaxAreaFrom(_, _, _)
MaxAreaFrom(ws, i, best) ==
    IF i > Len(ws) THEN best
    ELSE MaxAreaFrom(ws, i + 1,
                     IF AreaKey(ws[i]) > AreaKey(best) THEN ws[i] ELSE best)

Largest(ws) == MaxAreaFrom(ws, 2, ws[1])

select_best_window(ws, strategy) ==
    IF ws = <<>> THEN None
    ELSE IF strategy = "first" THEN Some(ws[1])
    ELSE IF strategy = "frontmost" THEN Some(Frontmost(ws))
    ELSE IF strategy = "largest" THEN Some(Largest(ws))
    ELSE Some(Frontmost(ws))

\* -------------------------------------------------- find_window_with_retry
\* Variant: one iteration too many.
InRange_M(a, max_retries) == a <= max_retries

\* for attempt in range(max_retries)
InRange(a, max_retries) == a < max_retries

\* if attempt < max_retries - 1
RetryAgain(a, max_retries) == a < max_retries - 1

\* Variant: delay += backoff_multiplier.
NextDelay_M(d, m) == <<d[1] * m[2] + m[1] * d[2], d[2] * m[2]>>

\* delay *= backoff_multiplier
NextDelay(d, m) == <<d[1] * m[1], d[2] * m[2]>>

\* Variant: the first record whatever the strategy.
FoundWindow_M(ws, strategy) == Some(ws[1])

\* What the loop returns for a non-empty list.
FoundWindow(ws, strategy) ==
    IF Len(ws) = 1 THEN Some(ws[1]) ELSE select_best_window(ws, strategy)

\* ------------------------------------------------- the generated script
MaxScreen == 2

\* The texts the script compares, as sequences of their parts: String.contains
\* is the search for a contiguous run of parts.
Text ==
    ("" :> <<>>)
    @@ ("Studio" :> <<"Studio">>)
    @@ ("Editor" :> <<"Editor">>)
    @@ ("Shader Editor" :> <<"Shader", " ", "Editor">>)
    @@ ("MetalShaderStudio" :> <<"Metal", "Shader", "Studio">>)
    @@ ("ShaderPlayground" :> <<"Shader", "Playground">>)
    @@ ("Finder" :> <<"Finder">>)
    @@ ("Viewer" :> <<"Viewer">>)
    @@ ("com.example.Other" :> <<"com", ".", "example", ".", "Other">>)
    @@ ("/Apps/com.example.Other" :> <<"/", "Apps", "/", "com", ".", "example", ".", "Other">>)

Contains(h, n) ==
    \E i \in 1..(Len(h) - Len(n) + 1) : SubSeq(h, i, i + Len(n) - 1) = n

\* ownerName.contains("ShaderPlayground") || ownerName.contains("MetalShaderStudio")
DefaultAppNames == {"ShaderPlayground", "MetalShaderStudio"}

\* The running applications: kCGWindowOwnerName and what
\* "ps -p <ownerPID> -o comm=" prints for the owner.
Apps ==
    {[ownerName |-> "MetalShaderStudio", comm |-> "MetalShaderStudio"],
     [ownerName |-> "ShaderPlayground", comm |-> "ShaderPlayground"],
     [ownerName |-> "Finder", comm |-> "Finder"],
     [ownerName |-> "Viewer", comm |-> "/Apps/com.example.Other"]}

\* One dictionary of CGWindowListCopyWindowInfo.  complete: the keys the
\* guard asks for (owner name, window number, bounds, layer) are all there;
\* isOnScreen: kCGWindowIsOnscreen is there and true.
ScreenEntries ==
    [ownerName : {a.ownerName : a \in Apps}, comm : {a.comm : a \in Apps},
     windowName : {"", "Shader Editor"}, isOnScreen : BOOLEAN,
     complete : BOOLEAN]

EntriesOfApps ==
    {e \in ScreenEntries :
        \E a \in Apps : a.ownerName = e.ownerName /\ a.comm = e.comm}

\* The window lists the OS can hand out, in its enumeration order.
Screens == UNION {[1..n -> EntriesOfApps] : n \in 0..MaxScreen}

\* Variant: the test of isOnScreen is left out.
EntryMatches_M(kinds, a, e) ==
    LET given ==
            \/ "bundle" \in kinds /\ Contains(Text[e.comm], Text[a.bundle_id])
            \/ "title" \in kinds /\ Contains(Text[e.windowName], Text[a.window_title])
            \/ "app" \in kinds /\ Contains(Text[e.ownerName], Text[a.app_name])
    IN given \/ ("default" \in kinds /\ ~given
                 /\ \E d \in DefaultAppNames : Contains(Text[e.ownerName], Text[d]))

\* matches_criteria && isOnScreen for one window, under the filter blocks
\* that the script text holds (kinds) with the values of the arguments a.
EntryMatches(kinds, a, e) ==
    LET given ==
            \/ "bundle" \in kinds /\ Contains(Text[e.comm], Text[a.bundle_id])
            \/ "title" \in kinds /\ Contains(Text[e.windowName], Text[a.window_title])
            \/ "app" \in kinds /\ Contains(Text[e.ownerName], Text[a.app_name])
        matches_criteria ==
            given \/ ("default" \in kinds /\ ~given
                      /\ \E d \in DefaultAppNames :
                             Contains(Text[e.ownerName], Text[d]))
    IN matches_criteria /\ e.isOnScreen

\* The record appended for the window at position i of the list (its window
\* number is its position; bounds and layer are the same for all here).
MatchRecord(i) == MkWindow(i, [layer |-> 0, width |-> 1, height |-> 2])

\* The for loop of the script over windowList.
RECURSIVE MatchesFrom(_, _, _, _, _)
MatchesFrom(kinds, a, scr, i, matches) ==
    IF i > Len(scr) THEN matches
    ELSE IF ~scr[i].complete THEN MatchesFrom(kinds, a, scr, i + 1, matches)
    ELSE MatchesFrom(kinds, a, scr, i + 1,
                     IF EntryMatches(kinds, a, scr[i])
                     THEN Append(matches, MatchRecord(i)) ELSE matches)

SwiftMatches(kinds, a, scr) == MatchesFrom(kinds, a, scr, 1, <<>>)

\* ------------------------------------------ two processes, one script path
Procs == {1, 2}
MaxCalls == 2

\* The text written by a process with the criteria c: the filter blocks it
\* holds and the values interpolated into them.
ScriptText(c) ==
    [kinds |-> ScriptFor(c.bundle_id, c.window_title, c.app_name),
     bundle_id |-> IF Truthy(c.bundle_id) THEN c.bundle_id ELSE NoneV,
     window_title |-> IF Truthy(c.window_title) THEN c.window_title ELSE NoneV,
     app_name |-> IF Truthy(c.app_name) THEN c.app_name ELSE NoneV]

NoText == [kinds |-> {}, bundle_id |-> NoneV, window_title |-> NoneV,
           app_name |-> NoneV]

NoFile == [exists |-> FALSE, text |-> NoText]
NotRun == [state |-> "none", text |-> NoText]

\* No second process is in play.
ProcsIdle ==
    /\ procPc = [p \in Procs |-> "idle"]
    /\ procCriteria = [p \in Procs |-> CHOOSE c \in CriteriaSet : c.app_name = NoneV]
    /\ procCalls = [p \in Procs |-> 0]
    /\ sharedFile = NoFile
    /\ procRan = [p \in Procs |-> NotRun]

\* -------------------------------------------------------------------- Init
\* The process has been started with a command line argparse accepts.
ArgsSet ==
    {[bundle_id |-> c.bundle_id, window_title |-> c.window_title,
      app_name |-> c.app_name, strategy |-> st, max_retries |-> n,
      retry_delay |-> d, backoff |-> b, json |-> j, quiet |-> q] :
        c \in CriteriaSet, st \in StrategySet, n \in 0..MaxRetries,
        d \in RetryDelaySet, b \in BackoffSet, j \in BOOLEAN, q \in BOOLEAN}

Init ==
    /\ pc = "check_deps"
    /\ args \in ArgsSet
    /\ deps = "unknown"
    /\ attempt = 0
    /\ delay = <<0, 1>>
    /\ windows = <<>>
    /\ window = None
    /\ artifact = FALSE
    /\ script = {}
    /\ stdout = {}
    /\ stderr = {}
    /\ exitCode = -1
    /\ queries = 0
    /\ fault = "none"
    /\ firstFault = 0
    /\ sleeps = <<>>
    /\ screen = <<>>
    /\ ProcsIdle

\* ------------------------------------------------------------------- main
\* main(), from the dependency check to the call of find_window_with_retry
\* and the first line of that function.
MainCheckDeps ==
    /\ pc = "check_deps"
    /\ \E probe \in ProbeOutcomes :
        LET ok == check_dependencies(probe) IN
        /\ deps' = ok
        /\ \/ /\ ok = "raise"
              /\ pc' = "crashed"
              /\ exitCode' = 1
              /\ stderr' = stderr \cup {"traceback"}
              /\ UNCHANGED delay
           \/ /\ ok = "false"
              /\ stderr' = log_stderr(log_stderr(stderr, "swift_not_found", Verbose),
                                      "install_hint", Verbose)
              /\ exitCode' = 4
              /\ pc' = "done"
              /\ UNCHANGED delay
           \/ /\ ok = "true"
              /\ stderr' = IF ~(Truthy(args.bundle_id) \/ Truthy(args.window_title)
                                \/ Truthy(args.app_name))
                           THEN log_stderr(stderr, "using_defaults", Verbose)
                           ELSE stderr
              /\ delay' = args.retry_delay
              /\ pc' = "loop"
              /\ UNCHANGED exitCode
    /\ UNCHANGED <<args, attempt, windows, window, artifact, script, stdout,
                   queries, fault, firstFault, sleeps>>
    /\ UNCHANGED <<screen, procVars>>

\* The head of "for attempt in range(max_retries)": either the next call of
\* get_windows_via_swift starts, or the loop is over and None is returned.
LoopHead ==
    /\ pc = "loop"
    /\ IF InRange(attempt, args.max_retries)
       THEN /\ pc' = "adapter_write"
            /\ queries' = queries + 1
            /\ fault' = "none"
            /\ UNCHANGED window
       ELSE /\ pc' = "report"
            /\ window' = None
            /\ UNCHANGED <<queries, fault>>
    /\ UNCHANGED <<args, deps, attempt, delay, windows, artifact, script, stdout,
                   stderr, exitCode, firstFault, sleeps>>
    /\ UNCHANGED <<screen, procVars>>

\* --------------------------------------------- get_windows_via_swift steps
NoteFault(branch) ==
    /\ fault' = branch
    /\ firstFault' = IF firstFault = 0 /\ branch # "ok" THEN queries ELSE firstFault

FaultLine(branch) ==
    CASE branch = "parse" -> "failed_to_parse_swift_output"
      [] branch = "failed" -> "swift_command_failed"
      [] OTHER -> "swift_method_error"

\* open(swift_file, 'w') and f.write(swift_code): the script text is in
\* place, or open raises and the except Exception branch returns [].
AdapterWrite ==
    /\ pc = "adapter_write"
    /\ \E written \in BOOLEAN :
        IF written
        THEN /\ artifact' = TRUE
             /\ script' = ScriptFor(args.bundle_id, args.window_title, args.app_name)
             /\ pc' = "adapter_run"
             /\ UNCHANGED <<windows, stderr, fault, firstFault>>
        ELSE /\ NoteFault("error")
             /\ stderr' = log_stderr(stderr, FaultLine("error"), Verbose)
             /\ windows' = <<>>
             /\ pc' = "adapter_cleanup"
             /\ UNCHANGED <<artifact, script>>
    /\ UNCHANGED <<args, deps, attempt, delay, window, stdout, exitCode, queries, sleeps>>
    /\ UNCHANGED <<screen, procVars>>

\* subprocess.run(['swift', swift_file], timeout=15) and the handling of its
\* result: it raises (TimeoutExpired, OSError), or it returns an exit status
\* and the captured stdout.
AdapterRun ==
    /\ pc = "adapter_run"
    /\ \/ /\ NoteFault("error")
          /\ stderr' = log_stderr(stderr, FaultLine("error"), Verbose)
          /\ windows' = <<>>
       \/ \E rc \in {0, 1}, out \in StdoutSet :
          LET branch == RunBranch(rc, out) IN
          /\ NoteFault(branch)
          /\ stderr' = IF branch = "ok" THEN stderr
                       ELSE log_stderr(stderr, FaultLine(branch), Verbose)
          /\ windows' = RunResult(rc, out)
    /\ pc' = "adapter_cleanup"
    /\ UNCHANGED <<args, deps, attempt, delay, window, artifact, script, stdout,
                   exitCode, queries, sleeps>>
    /\ UNCHANGED <<screen, procVars>>

\* The finally clause: os.remove if the file exists; an exception of
\* os.remove is swallowed by "except: pass".
AdapterCleanup ==
    /\ pc = "adapter_cleanup"
    /\ IF artifact
       THEN \E removed \in BOOLEAN :
            /\ artifact' = ~removed
            /\ script' = IF removed THEN {} ELSE script
       ELSE UNCHANGED <<artifact, script>>
    /\ pc' = "evaluate"
    /\ UNCHANGED <<args, deps, attempt, delay, windows, window, stdout, stderr,
                   exitCode, queries, fault, firstFault, sleeps>>
    /\ UNCHANGED <<screen, procVars>>

\* ------------------------------------------- find_window_with_retry, body
\* The loop body after get_windows_via_swift returned.
Evaluate ==
    /\ pc = "evaluate"
    /\ IF windows # <<>>
       THEN /\ stderr' = log_stderr(stderr,
                                    IF Len(windows) = 1 THEN "found_one"
                                    ELSE "found_many", Verbose)
            /\ window' = FoundWindow(windows, args.strategy)
            /\ pc' = "report"
            /\ UNCHANGED <<attempt, delay, sleeps>>
       ELSE /\ IF RetryAgain(attempt, args.max_retries)
               THEN /\ stderr' = log_stderr(stderr, "retrying", Verbose)
                    /\ sleeps' = Append(sleeps, delay)
                    /\ delay' = NextDelay(delay, args.backoff)
               ELSE UNCHANGED <<stderr, sleeps, delay>>
            /\ attempt' = attempt + 1
            /\ pc' = "loop"
            /\ UNCHANGED window
    /\ UNCHANGED <<args, deps, windows, artifact, script, stdout, exitCode, queries,
                   fault, firstFault>>
    /\ UNCHANGED <<screen, procVars>>

\* ------------------------------------------------------------ main, report
Report ==
    /\ pc = "report"
    /\ IF window # None
       THEN /\ stdout' = stdout \cup {IF args.json THEN "window_json" ELSE "window_id"}
            /\ exitCode' = 0
            /\ UNCHANGED stderr
       ELSE /\ IF args.json
               THEN /\ stdout' = stdout \cup {"error_json"}
                    /\ UNCHANGED stderr
               ELSE /\ stderr' = log_stderr(stderr, "no_window_found", Verbose)
                    /\ UNCHANGED stdout
            /\ exitCode' = 2
    /\ pc' = "done"
    /\ UNCHANGED <<args, deps, attempt, delay, windows, window, artifact, script,
                   queries, fault, firstFault, sleeps>>
    /\ UNCHANGED <<screen, procVars>>

Next ==
    \/ MainCheckDeps
    \/ LoopHead
    \/ AdapterWrite
    \/ AdapterRun
    \/ AdapterCleanup
    \/ Evaluate
    \/ Report

Spec == Init /\ [][Next]_vars

\* ------------------------------------------- one query, the script in detail
\* One call of get_windows_via_swift in which the swift process runs the
\* script to its end: what it prints is computed from the window list the OS
\* hands out.
FilterCriteriaSet ==
    CriteriaSet \cup
    {[bundle_id |-> NoneV, window_title |-> NoneV, app_name |-> "Studio"],
     [bundle_id |-> NoneV, window_title |-> "Editor", app_name |-> NoneV],
     [bundle_id |-> "com.example.Other", window_title |-> NoneV, app_name |-> NoneV],
     [bundle_id |-> NoneV, window_title |-> "Editor", app_name |-> "Finder"]}

InitFilter ==
    /\ pc = "adapter_write"
    /\ args \in {a \in [bundle_id : {c.bundle_id : c \in FilterCriteriaSet},
                        window_title : {c.window_title : c \in FilterCriteriaSet},
                        app_name : {c.app_name : c \in FilterCriteriaSet},
                        strategy : {"frontmost"}, max_retries : {1},
                        retry_delay : {<<1, 2>>}, backoff : {<<3, 2>>},
                        json : {FALSE}, quiet : {FALSE}] :
                    \E c \in FilterCriteriaSet :
                        /\ c.bundle_id = a.bundle_id
                        /\ c.window_title = a.window_title
                        /\ c.app_name = a.app_name}
    /\ deps = "true"
    /\ attempt = 0
    /\ delay = args.retry_delay
    /\ windows = <<>>
    /\ window = None
    /\ artifact = FALSE
    /\ script = {}
    /\ stdout = {}
    /\ stderr = {}
    /\ exitCode = -1
    /\ queries = 1
    /\ fault = "none"
    /\ firstFault = 0
    /\ sleeps = <<>>
    /\ screen = <<>>
    /\ ProcsIdle

\* subprocess.run of the script that is in the file, exit status 0, and
\* json.loads of what it printed.
ScriptRun ==
    /\ pc = "adapter_run"
    /\ artifact
    /\ \E scr \in Screens :
        /\ screen' = scr
        /\ windows' = SwiftMatches(script, args, scr)
    /\ NoteFault("ok")
    /\ pc' = "adapter_cleanup"
    /\ UNCHANGED <<args, deps, attempt, delay, window, artifact, script, stdout,
                   stderr, exitCode, queries, sleeps, procVars>>

NextFilter ==
    \/ AdapterWrite
    \/ ScriptRun
    \/ AdapterCleanup

SpecFilter == InitFilter /\ [][NextFilter]_vars

\* ------------------------------------- two finder processes on one machine
\* Each process p is inside find_window_with_retry and calls
\* get_windows_via_swift up to MaxCalls times; both use the one path
\* /tmp/find_window.swift, and their steps interleave freely.
InitConc ==
    /\ pc = "done"
    /\ args = CHOOSE a \in ArgsSet : TRUE
    /\ deps = "true"
    /\ attempt = 0
    /\ delay = <<0, 1>>
    /\ windows = <<>>
    /\ window = None
    /\ artifact = FALSE
    /\ script = {}
    /\ stdout = {}
    /\ stderr = {}
    /\ exitCode = -1
    /\ queries = 0
    /\ fault = "none"
    /\ firstFault = 0
    /\ sleeps = <<>>
    /\ screen = <<>>
    /\ procPc = [p \in Procs |-> "idle"]
    /\ procCriteria \in [Procs -> FilterCriteriaSet]
    /\ procCalls = [p \in Procs |-> 0]
    /\ sharedFile = NoFile
    /\ procRan = [p \in Procs |-> NotRun]

singleVars == <<pc, args, deps, attempt, delay, windows, window, artifact,
                script, stdout, stderr, exitCode, queries, fault, firstFault,
                sleeps, screen>>

\* The loop of find_window_with_retry calls get_windows_via_swift (again).
ProcCall(p) ==
    /\ procPc[p] \in {"idle", "returned"}
    /\ procCalls[p] < MaxCalls
    /\ procCalls' = [procCalls EXCEPT ![p] = @ + 1]
    /\ procRan' = [procRan EXCEPT ![p] = NotRun]
    /\ procPc' = [procPc EXCEPT ![p] = "write"]
    /\ UNCHANGED <<procCriteria, sharedFile, singleVars>>

\* open(swift_file, 'w') and f.write(swift_code): the file now holds the
\* text of p, whatever it held; or open raises and the run is skipped.
ProcWrite(p) ==
    /\ procPc[p] = "write"
    /\ \E written \in BOOLEAN :
        IF written
        THEN /\ sharedFile' = [exists |-> TRUE, text |-> ScriptText(procCriteria[p])]
             /\ procPc' = [procPc EXCEPT ![p] = "run"]
        ELSE /\ procPc' = [procPc EXCEPT ![p] = "cleanup"]
             /\ UNCHANGED sharedFile
    /\ UNCHANGED <<procCriteria, procCalls, procRan, singleVars>>

\* subprocess.run(['swift', swift_file]): swift reads whatever the path
\* holds at that moment, or fails because nothing is there.
ProcRun(p) ==
    /\ procPc[p] = "run"
    /\ procRan' = [procRan EXCEPT ![p] =
                       IF sharedFile.exists
                       THEN [state |-> "ran", text |-> sharedFile.text]
                       ELSE [state |-> "missing", text |-> NoText]]
    /\ procPc' = [procPc EXCEPT ![p] = "cleanup"]
    /\ UNCHANGED <<procCriteria, procCalls, sharedFile, singleVars>>

\* The finally clause: os.remove if the path exists, errors swallowed.
ProcCleanup(p) ==
    /\ procPc[p] = "cleanup"
    /\ IF sharedFile.exists
       THEN \E removed \in BOOLEAN :
            sharedFile' = IF removed THEN NoFile ELSE sharedFile
       ELSE UNCHANGED sharedFile
    /\ procPc' = [procPc EXCEPT ![p] = "returned"]
    /\ UNCHANGED <<procCriteria, procCalls, procRan, singleVars>>

NextConc ==
    \/ \E p \in Procs : ProcCall(p)
    \/ \E p \in Procs : ProcWrite(p)
    \/ \E p \in Procs : ProcRun(p)
    \/ \E p \in Procs : ProcCleanup(p)

SpecConc == InitConc /\ [][NextConc]_vars

\* ================================================================ claims
Terminated == pc \in {"done", "crashed"}
Returned == pc \in {"report", "done"}

\* C1: with max_retries = N and only empty results, find_window_with_retry
\* makes exactly N calls of get_windows_via_swift, never more, and returns
\* None, which main reports as exit code 2.
C1_ExactlyNQueries ==
    /\ queries <= args.max_retries
    /\ (Returned /\ deps = "true" /\ windows = <<>>) =>
           (window = None /\ queries = args.max_retries)
    /\ (pc = "done" /\ deps = "true" /\ windows = <<>>) => exitCode = 2

C1_Witness ==
    /\ pc = "done"
    /\ args.max_retries = 3
    /\ queries = 3
    /\ firstFault = 0
    /\ window = None
    /\ exitCode = 2

C3_ExitCodes ==
    Terminated =>
        /\ exitCode \in {0, 2, 4}
        /\ (exitCode = 0) <=> (window # None)
        /\ (exitCode = 2) <=>
               (deps = "true" /\ window = None /\ queries = args.max_retries)
        /\ (exitCode = 4) <=> (deps = "false")
        /\ (exitCode = 4) => (queries = 0)

\* C4: when a call of get_windows_via_swift has returned, the file
\* /tmp/find_window.swift does not exist.
C4_NoArtifactAfterCall ==
    (pc \in {"evaluate", "loop", "report", "done"} /\ queries > 0) => ~artifact

\* C5: the loop returns at the first call with a non-empty list, what it
\* returns is select_best_window of that list under the requested strategy,
\* and nothing is queried or slept after it: a match at the k-th call means
\* k calls and k-1 sleeps.
C5_FoundAtFirstMatch ==
    /\ (pc \in {"loop", "adapter_write", "adapter_run"}) => windows = <<>>
    /\ (Returned /\ windows # <<>>) =>
           /\ window = select_best_window(windows, args.strategy)
           /\ window # None
           /\ queries = attempt + 1
           /\ Len(sleeps) = attempt
    /\ (pc = "done" /\ windows # <<>>) => exitCode = 0

C5_Witness ==
    /\ pc = "done"
    /\ exitCode = 0
    /\ queries = 3
    /\ Len(sleeps) = 2
    /\ Len(windows) = 2
    /\ window = Some(windows[2])

RECURSIVE Pow(_, _)
Pow(b, k) == IF k = 0 THEN 1 ELSE b * Pow(b, k - 1)

\* a = b for the rationals a, b
RatEq(a, b) == a[1] * b[2] = b[1] * a[2]

\* C6: the sleep after the empty attempt k (counted from 0) lasts
\* retry_delay * backoff^k, there is one after every empty attempt k with
\* k + 1 < max_retries, and none after the last attempt.
C6_BackoffDelays ==
    /\ \A i \in 1..Len(sleeps) :
           RatEq(sleeps[i],
                 <<args.retry_delay[1] * Pow(args.backoff[1], i - 1),
                   args.retry_delay[2] * Pow(args.backoff[2], i - 1)>>)
    /\ Len(sleeps) <= attempt
    /\ (args.max_retries > 0) => Len(sleeps) < args.max_retries
    /\ (pc = "loop" /\ attempt < args.max_retries) => Len(sleeps) = attempt
    /\ (pc = "loop" /\ attempt = args.max_retries /\ attempt > 0) =>
           Len(sleeps) = attempt - 1

C6_Witness ==
    /\ pc = "done"
    /\ exitCode = 2
    /\ args.max_retries = 3
    /\ args.backoff = <<3, 2>>
    /\ args.retry_delay = <<1, 2>>
    /\ Len(sleeps) = 2
    /\ RatEq(sleeps[2], <<3, 4>>)

\* C7: for a non-empty list, strategy 'frontmost' yields a record of the
\* list whose layer is at most the layer of every record of the list.
IsFrontmostOf(r, ws) ==
    /\ \E i \in 1..Len(ws) : ws[i] = r
    /\ \A j \in 1..Len(ws) : r.layer <= ws[j].layer

C7_FrontmostMinLayer ==
    /\ windows # <<>> =>
           LET r == select_best_window(windows, "frontmost") IN
           r # None /\ IsFrontmostOf(r[1], windows)
    /\ (Returned /\ window # None /\ args.strategy = "frontmost") =>
           IsFrontmostOf(window[1], windows)

C7_Witness ==
    /\ pc = "done"
    /\ args.strategy = "frontmost"
    /\ Len(windows) = 2
    /\ windows[2].layer < windows[1].layer
    /\ window = Some(windows[2])

\* C8: for a non-empty list, strategy 'largest' yields a record of the list
\* whose width*height is at least that of every record of the list.
IsLargestOf(r, ws) ==
    /\ \E i \in 1..Len(ws) : ws[i] = r
    /\ \A j \in 1..Len(ws) : r.width * r.height >= ws[j].width * ws[j].height

C8_LargestMaxArea ==
    /\ windows # <<>> =>
           LET r == select_best_window(windows, "largest") IN
           r # None /\ IsLargestOf(r[1], windows)
    /\ (Returned /\ window # None /\ args.strategy = "largest") =>
           IsLargestOf(window[1], windows)

C8_Witness ==
    /\ pc = "done"
    /\ args.strategy = "largest"
    /\ Len(windows) = 2
    /\ windows[1].width = windows[2].width
    /\ windows[1].height < windows[2].height
    /\ window = Some(windows[2])

\* A filter flag given with the empty string as its value.
Malformed(a) == "" \in {a.bundle_id, a.window_title, a.app_name}

Given(v) == v \notin {NoneV, ""}

DiagnosticLines == {"no_window_found", "swift_not_found", "install_hint"}

\* C10 as stated: every run that ends with exit code 2 or 4 has written a
\* diagnostic to stderr, with and without --json.
C10_DiagnosticOnEveryFailure ==
    (pc = "done" /\ exitCode \in {2, 4}) => stderr \cap DiagnosticLines # {}

\* C10 amended: with exit code 4 the diagnostic is on stderr unless --quiet
\* was given (nothing is printed to stdout, also with --json); with exit code
\* 2 it is on stderr only without --json and without --quiet, and with
\* --json the error envelope goes to stdout and no diagnostic to stderr.
C10_DiagnosticByMode ==
    pc = "done" =>
        /\ exitCode = 4 =>
               /\ ("swift_not_found" \in stderr) <=> ~args.quiet
               /\ ("install_hint" \in stderr) <=> ~args.quiet
               /\ stdout = {}
        /\ (exitCode = 2 /\ ~args.json) =>
               /\ ("no_window_found" \in stderr) <=> ~args.quiet
               /\ stdout = {}
        /\ (exitCode = 2 /\ args.json) =>
               /\ stderr \cap DiagnosticLines = {}
               /\ stdout = {"error_json"}
        /\ exitCode \in {0, 2, 4}

C10_Witness ==
    /\ pc = "done"
    /\ exitCode = 2
    /\ args.json
    /\ ~args.quiet
    /\ queries = 1
    /\ stderr = {}
    /\ stdout = {"error_json"}

\* C11 as stated: no failure inside the dependency check, the query or the
\* retry loop leaves main as a raw exception; the run always gets to one of
\* the outcomes Found, NotFound, DependencyMissing.
C11_NoExceptionEscapes ==
    /\ pc # "crashed"
    /\ deps # "raise"
    /\ "traceback" \notin stderr

\* C12: among several records with the least layer ('frontmost') or the
\* greatest area ('largest') the one returned is the first of them in the
\* order of the list; some record is always returned, and no run ends with
\* the exit code 3 of the "ambiguous" case.
FirstIndex(ws, Best(_)) ==
    CHOOSE i \in 1..Len(ws) : Best(i) /\ \A j \in 1..(i - 1) : ~Best(j)

Queried == pc \in {"adapter_cleanup", "evaluate"} /\ fault = "ok"

AnyGiven ==
    Given(args.bundle_id) \/ Given(args.window_title) \/ Given(args.app_name)

\* The window is on screen and matches a criterion that was given, or, when
\* none was given, its owner name contains a default application name.
OnScreenMatch(e) ==
    /\ e.isOnScreen
    /\ IF AnyGiven
       THEN \/ Given(args.bundle_id)
               /\ Contains(Text[e.comm], Text[args.bundle_id])
            \/ Given(args.window_title)
               /\ Contains(Text[e.windowName], Text[args.window_title])
            \/ Given(args.app_name)
               /\ Contains(Text[e.ownerName], Text[args.app_name])
       ELSE \E d \in {"ShaderPlayground", "MetalShaderStudio"} :
                Contains(Text[e.ownerName], Text[d])

\* The positions of the list whose window passes the test, in order.
RECURSIVE PositionsFrom(_, _)
PositionsFrom(Test(_), i) ==
    IF i > Len(screen) THEN <<>>
    ELSE (IF Test(screen[i]) THEN <<i>> ELSE <<>>) \o PositionsFrom(Test, i + 1)

CandidatesAre(Test(_)) ==
    LET pos == PositionsFrom(Test, 1) IN
    /\ Len(windows) = Len(pos)
    /\ \A k \in 1..Len(pos) : windows[k].windowID = pos[k]

\* C13 as stated: the candidates of one query are exactly the enumerated
\* windows that are on screen and match a given criterion (a default name
\* when no criterion is given), in enumeration order.
C13_AllOnScreenMatches == Queried => CandidatesAre(OnScreenMatch)

\* C13 amended: ... exactly those enumerated windows that carry an owner
\* name, a window number, bounds and a layer, are on screen and match a given
\* criterion (a default name when none is given), in enumeration order; when
\* there is none the list is empty and the query is not a failure.
CompleteOnScreenMatch(e) == e.complete /\ OnScreenMatch(e)

C13_CompleteOnScreenMatches ==
    /\ Queried => CandidatesAre(CompleteOnScreenMatch)
    /\ (Queried /\ \A i \in 1..Len(screen) : ~CompleteOnScreenMatch(screen[i])) =>
           (windows = <<>> /\ firstFault = 0 /\ stderr = {})

C13_Witness ==
    /\ pc = "evaluate"
    /\ fault = "ok"
    /\ Given(args.window_title)
    /\ Given(args.app_name)
    /\ Len(screen) = 2
    /\ ~screen[1].isOnScreen
    /\ screen[1].complete /\ screen[2].complete
    /\ Contains(Text[screen[1].ownerName], Text[args.app_name])
    /\ ~Contains(Text[screen[2].ownerName], Text[args.app_name])
    /\ Contains(Text[screen[2].windowName], Text[args.window_title])
    /\ Len(windows) = 1
    /\ windows[1].windowID = 2

\* C14: with two finder processes running at once, every swift run of a
\* process reads the script text that this process wrote for this call:
\* never the text of the other process, never a path that is gone.
C14_RunsOwnScript ==
    \A p \in Procs :
        \/ procRan[p].state = "none"
        \/ /\ procRan[p].state = "ran"
           /\ procRan[p].text = ScriptText(procCriteria[p])

====
